---- MODULE Spec2Model ----
(***************************************************************************)
(* Luau code generator (codegen-luau/src/gen.rs).                          *)
(*                                                                         *)
(* Three specifications:                                                   *)
(*   Spec      the statement emitter (Visitor, label stack, branch gadget) *)
(*             walking a function body, followed by the execution of the   *)
(*             emitted Luau token stream;                                  *)
(*   SpecMod   the module emitter (index spaces, init closure, factory);   *)
(*   SpecExpr  write_expression over constant-expression sequences.        *)
(*                                                                         *)
(* A function body is the preorder linearisation of the statement tree:    *)
(* a construct is its opening token, its body, and an "End" token; the     *)
(* falsey arm of an If starts at an "Else" token.                          *)
(***************************************************************************)
EXTENDS Integers, Sequences, FiniteSets, TLC

\* ------------------------------------------------------------------ bounds
\* statements (constructs and leaves) of one function body, root included
MaxNodes == 4
\* entries of a br_table depth table
MaxTable == 1
\* invocations of one emitted function
MaxCalls == 2
\* Lua nil, as the value of the global `desired`
Nil == -1

VARIABLES
    phase,        \* "idle" | "emit" | "exec"
    src,          \* the statements of the current function visited so far
    lpos,         \* lpos[i]: position in out where the emission of src[i] starts
    label_list,   \* Visitor.label_list
    frames,       \* active visit() calls of constructs: [label, rem, in_else]
    out,          \* the text written for the current function, as Luau tokens
    pc,           \* position in out of the next token to execute
    desired,      \* the Luau global `desired`
    calls,        \* invocations of the current function so far
    br,           \* the branch statement executed last and not yet landed
    mod,          \* the input module of the module emitter
    mstep,        \* position in transpile / gen_start_point
    mout,         \* the module-level text written, as emitted items
    code,         \* the instruction sequence handed to write_expression
    eout,         \* what write_expression wrote
    func,         \* the Function handed to the function emitter
    num_param,    \* Visitor.num_param
    fstep,        \* position in Function::visit
    fout,         \* the declarations written for func, as statements
    ref           \* the variable reference written last in the body

fvars == <<phase, src, lpos, label_list, frames, out, pc, desired, calls, br>>
mvars == <<mod, mstep, mout>>
evars == <<code, eout>>
lvars == <<func, num_param, fstep, fout, ref>>
vars == <<fvars, mvars, evars, lvars>>

\* ------------------------------------------------------------- source AST
Constructs == {"Forward", "Backward", "If"}

Stmt(k, up, table) == [k |-> k, up |-> up, table |-> table]

\* Luau tokens: t the token kind, n its number, tab the literal of a table
Tok(t) == [t |-> t, n |-> 0, tab |-> <<>>]
TokN(t, n) == [t |-> t, n |-> n, tab |-> <<>>]
TokT(tab, default) == [t |-> "table", n |-> default, tab |-> tab]

Last(s) == s[Len(s)]

\* ------------------------------------------------------- statement emitter
br_target(level, in_loop) ==
    <<Tok("ifdesired"), TokN("ifeq", level), Tok("clear")>>
    \o (IF in_loop THEN <<Tok("continue")>> ELSE <<>>)
    \o <<Tok("end"), Tok("break"), Tok("end")>>

write_br_gadget(labels, rem) ==
    IF labels = <<>> THEN <<>>
    ELSE IF Last(labels) \in {"Forward", "If"} THEN br_target(rem, FALSE)
    ELSE br_target(rem, TRUE)

push_label(labels, label) == Append(labels, label)

pop_label_keep(labels) == labels

pop_label(labels) == SubSeq(labels, 1, Len(labels) - 1)

write_br_at_break(up, labels) ==
    <<Tok("do")>>
    \o (IF up = 0 THEN <<Tok("break")>>
        ELSE <<TokN("set", Len(labels) - 1 - up), Tok("break")>>)
    \o <<Tok("end")>>

write_br_at(up, labels) ==
    <<Tok("do")>>
    \o (IF up = 0
        THEN (IF labels # <<>> /\ Last(labels) = "Backward"
              THEN <<Tok("continue")>> ELSE <<Tok("break")>>)
        ELSE <<TokN("set", Len(labels) - 1 - up), Tok("break")>>)
    \o <<Tok("end")>>

\* ---------------------------------------------- reference: the source tree
RECURSIVE OpenAt(_, _)
\* indices of the constructs of s still open after its first n statements
OpenAt(s, n) ==
    IF n = 0 THEN <<>>
    ELSE LET st == OpenAt(s, n - 1) IN
         IF s[n].k \in Constructs THEN Append(st, n)
         ELSE IF s[n].k = "End" THEN SubSeq(st, 1, Len(st) - 1)
         ELSE st

\* the constructs enclosing statement i, outermost first
Enclosing(s, i) == OpenAt(s, i - 1)
EnclosingKinds(s, n) == [j \in 1..Len(OpenAt(s, n)) |-> s[OpenAt(s, n)[j]].k]

\* the construct a branch of depth up at statement i targets
TargetOf(s, i, up) == Enclosing(s, i)[Len(Enclosing(s, i)) - up]

\* the End of the construct opened at q
SrcEnd(s, q) ==
    CHOOSE e \in (q + 1)..Len(s) :
        /\ s[e].k = "End"
        /\ Len(OpenAt(s, e)) = Len(OpenAt(s, q)) - 1
        /\ \A f \in (q + 1)..(e - 1) : Len(OpenAt(s, f)) >= Len(OpenAt(s, q))

Nodes(s) == Cardinality({i \in 1..Len(s) : s[i].k \notin {"End", "Else"}})

\* ------------------------------------------------------------------- Init
NoBr == [kind |-> "none", at |-> 0, up |-> 0, pre |-> Nil, post |-> Nil]

FInit ==
    /\ phase = "idle"
    /\ src = <<>>
    /\ lpos = <<>>
    /\ label_list = <<>>
    /\ frames = <<>>
    /\ out = <<>>
    /\ pc = 1
    /\ desired = Nil
    /\ calls = 0
    /\ br = NoBr

MIdle == mod = <<>> /\ mstep = "off" /\ mout = <<>>
EIdle == code = <<>> /\ eout = <<>>

NoRef == [var |-> 0, name |-> <<>>, op |-> "none"]

LIdle ==
    /\ func = <<>>
    /\ num_param = 0
    /\ fstep = "off"
    /\ fout = <<>>
    /\ ref = NoRef

Init == FInit /\ MIdle /\ EIdle /\ LIdle

\* ----------------------------------------------------------- emit actions
AtEnd == phase = "exec" /\ pc = Len(out) + 1

\* gen_func_list: the next function of the code section is emitted, with a
\* fresh Visitor; the functions run only once the whole text is written
gen_func_list ==
    /\ phase = "idle" \/ (AtEnd /\ calls = 0)
    /\ phase' = "emit"
    /\ src' = <<>>
    /\ lpos' = <<>>
    /\ label_list' = <<>>
    /\ frames' = <<>>
    /\ out' = <<>>
    /\ pc' = 1
    /\ calls' = 0
    /\ br' = NoBr
    /\ UNCHANGED <<desired, mvars, evars, lvars>>

\* a nested statement is visited inside an open construct; the bound caps
\* the size of the body
CanVisit == phase = "emit" /\ frames # <<>> /\ Nodes(src) < MaxNodes

Emit(stmt, text) ==
    /\ src' = Append(src, stmt)
    /\ lpos' = Append(lpos, Len(out) + 1)
    /\ out' = out \o text

\* the part of Forward/Backward/If::visit before the body
Enter(label, text) ==
    /\ label_list' = push_label(label_list, label)
    /\ frames' = Append(frames, [label |-> label,
                                 rem |-> Len(push_label(label_list, label)) - 1,
                                 in_else |-> FALSE])
    /\ Emit(Stmt(label, 0, <<>>), text)
    /\ UNCHANGED <<phase, pc, desired, calls, br, mvars, evars, lvars>>

\* Function::visit enters the root of the body, a Forward, on an empty stack
visit_Forward ==
    /\ (phase = "emit" /\ src = <<>>) \/ CanVisit
    /\ Enter("Forward", <<Tok("while")>>)

visit_Backward ==
    /\ CanVisit
    /\ Enter("Backward", <<Tok("while")>>)

visit_If ==
    /\ CanVisit
    /\ Enter("If", <<Tok("while"), Tok("if")>>)

visit_Else ==
    /\ phase = "emit"
    /\ frames # <<>>
    /\ Last(frames).label = "If"
    /\ ~Last(frames).in_else
    /\ frames' = [frames EXCEPT ![Len(frames)].in_else = TRUE]
    /\ Emit(Stmt("Else", 0, <<>>), <<Tok("else")>>)
    /\ UNCHANGED <<phase, label_list, pc, desired, calls, br, mvars, evars, lvars>>

\* the part of Forward/Backward/If::visit after the body
Leave ==
    /\ phase = "emit"
    /\ frames # <<>>
    /\ LET f == Last(frames)
           popped == pop_label(label_list)
           tail == IF f.label = "If"
                   THEN <<Tok("end"), Tok("break"), Tok("end")>>
                   ELSE <<Tok("break"), Tok("end")>>
       IN /\ label_list' = popped
          /\ frames' = SubSeq(frames, 1, Len(frames) - 1)
          /\ Emit(Stmt("End", 0, <<>>), tail \o write_br_gadget(popped, f.rem))
          /\ phase' = IF Len(frames) = 1 THEN "exec" ELSE "emit"
          /\ pc' = IF Len(frames) = 1 THEN Len(out') + 1 ELSE pc
    /\ UNCHANGED <<desired, calls, br, mvars, evars, lvars>>

Leaf(stmt, text) ==
    /\ Emit(stmt, text)
    /\ UNCHANGED <<phase, label_list, frames, pc, desired, calls, br, mvars, evars, lvars>>

\* a well-formed branch depth names an enclosing construct
Depths == 0..(Len(OpenAt(src, Len(src))) - 1)

visit_Br ==
    /\ CanVisit
    /\ \E up \in Depths : Leaf(Stmt("Br", up, <<>>), write_br_at(up, label_list))

visit_BrIf ==
    /\ CanVisit
    /\ \E up \in Depths :
        Leaf(Stmt("BrIf", up, <<>>),
             <<Tok("if")>> \o write_br_at(up, label_list) \o <<Tok("end")>>)

Tables == UNION {[1..n -> Depths] : n \in 0..MaxTable}

visit_BrTable ==
    /\ CanVisit
    /\ \E table \in Tables, default \in Depths :
        Leaf(Stmt("BrTable", default, table),
             <<Tok("do"), TokT(table, default), Tok("break"), Tok("end")>>)

\* Memorize, Call, CallIndirect, SetLocal, SetGlobal, AnyStore
visit_Other ==
    /\ CanVisit
    /\ Leaf(Stmt("Other", 0, <<>>), <<Tok("stmt")>>)

\* ------------------------------------------- the emitted text, as it runs
Opens(t) == t \in {"while", "if", "ifdesired", "ifeq", "do"}

RECURSIVE ScanEnd(_, _, _)
\* the `end` closing the block that holds position i, d blocks being open
ScanEnd(toks, i, d) ==
    IF i > Len(toks) THEN 0
    ELSE IF Opens(toks[i].t) THEN ScanEnd(toks, i + 1, d + 1)
    ELSE IF toks[i].t = "end"
         THEN (IF d = 0 THEN i ELSE ScanEnd(toks, i + 1, d - 1))
    ELSE ScanEnd(toks, i + 1, d)

\* the `end` of the block opened at i
MatchEnd(toks, i) == ScanEnd(toks, i + 1, 0)

RECURSIVE ScanElse(_, _, _)
\* the `else` of the `if` whose arm holds position i, or 0
ScanElse(toks, i, d) ==
    IF i > Len(toks) THEN 0
    ELSE IF Opens(toks[i].t) THEN ScanElse(toks, i + 1, d + 1)
    ELSE IF toks[i].t = "end"
         THEN (IF d = 0 THEN 0 ELSE ScanElse(toks, i + 1, d - 1))
    ELSE IF toks[i].t = "else" /\ d = 0 THEN i
    ELSE ScanElse(toks, i + 1, d)

MatchElse(toks, i) == ScanElse(toks, i + 1, 0)

RECURSIVE ScanOpen(_, _, _)
\* the opener of the innermost block holding position i + 1
ScanOpen(toks, i, d) ==
    IF i < 1 THEN 0
    ELSE IF toks[i].t = "end" THEN ScanOpen(toks, i - 1, d + 1)
    ELSE IF Opens(toks[i].t)
         THEN (IF d = 0 THEN i ELSE ScanOpen(toks, i - 1, d - 1))
    ELSE ScanOpen(toks, i - 1, d)

RECURSIVE LoopOf(_, _)
\* the `while` of the innermost loop holding position i, or 0
LoopOf(toks, i) ==
    LET o == ScanOpen(toks, i - 1, 0) IN
    IF o = 0 THEN 0
    ELSE IF toks[o].t = "while" THEN o
    ELSE LoopOf(toks, o)

\* the Lua table built by { [0] = d0, d1, ... }: keys from 0
TempTable(data) == [i \in 0..(Len(data) - 1) |-> data[i + 1]]

\* positions of out at which the text of a source statement starts, and
\* the end of the function
StmtStarts == {lpos[i] : i \in 1..Len(lpos)} \cup {Len(out) + 1}

\* the source statement whose text holds position p
Origin(p) ==
    CHOOSE i \in 1..Len(src) :
        lpos[i] <= p /\ (i = Len(src) \/ p < lpos[i + 1])

BrKeep == IF pc \in StmtStarts THEN NoBr ELSE br

Running(t) == phase = "exec" /\ pc <= Len(out) /\ out[pc].t = t

Quiet == UNCHANGED <<phase, src, lpos, label_list, frames, out, calls, mvars, evars, lvars>>

\* the factory's caller calls FUNC_LIST[i] again: `desired` is a global
Invoke ==
    /\ AtEnd
    /\ calls < MaxCalls
    /\ calls' = calls + 1
    /\ pc' = 1
    /\ br' = NoBr
    /\ UNCHANGED <<phase, src, lpos, label_list, frames, out, desired, mvars, evars, lvars>>

ExecWhile ==
    /\ Running("while")
    /\ pc' = pc + 1
    /\ br' = BrKeep
    /\ UNCHANGED desired /\ Quiet

ExecDo ==
    /\ Running("do")
    /\ pc' = pc + 1
    /\ br' = BrKeep
    /\ UNCHANGED desired /\ Quiet

ExecStmt ==
    /\ Running("stmt")
    /\ pc' = pc + 1
    /\ br' = BrKeep
    /\ UNCHANGED desired /\ Quiet

\* if <cond> ~= 0 then: the condition is an input
ExecIf ==
    /\ Running("if")
    /\ \E cond \in BOOLEAN :
        pc' = IF cond THEN pc + 1
              ELSE IF MatchElse(out, pc) # 0 THEN MatchElse(out, pc) + 1
              ELSE MatchEnd(out, pc) + 1
    /\ br' = BrKeep
    /\ UNCHANGED desired /\ Quiet

\* the truthy arm ran into its else
ExecElse ==
    /\ Running("else")
    /\ pc' = ScanEnd(out, pc + 1, 0) + 1
    /\ br' = BrKeep
    /\ UNCHANGED desired /\ Quiet

ExecEnd ==
    /\ Running("end")
    /\ pc' = IF out[ScanOpen(out, pc - 1, 0)].t = "while"
             THEN ScanOpen(out, pc - 1, 0)
             ELSE pc + 1
    /\ br' = BrKeep
    /\ UNCHANGED desired /\ Quiet

IsBr0(i) == src[i].k \in {"Br", "BrIf"} /\ src[i].up = 0

ExecBreak ==
    /\ Running("break")
    /\ LoopOf(out, pc) # 0
    /\ pc' = MatchEnd(out, LoopOf(out, pc)) + 1
    /\ br' = IF IsBr0(Origin(pc))
             THEN [kind |-> "br", at |-> Origin(pc), up |-> 0,
                   pre |-> desired, post |-> desired]
             ELSE BrKeep
    /\ UNCHANGED desired /\ Quiet

ExecContinue ==
    /\ Running("continue")
    /\ LoopOf(out, pc) # 0
    /\ pc' = LoopOf(out, pc)
    /\ br' = IF IsBr0(Origin(pc))
             THEN [kind |-> "br", at |-> Origin(pc), up |-> 0,
                   pre |-> desired, post |-> desired]
             ELSE BrKeep
    /\ UNCHANGED desired /\ Quiet

\* desired = <level>
ExecSet ==
    /\ Running("set")
    /\ desired' = out[pc].n
    /\ pc' = pc + 1
    /\ br' = [kind |-> "br", at |-> Origin(pc), up |-> src[Origin(pc)].up,
              pre |-> desired, post |-> out[pc].n]
    /\ Quiet

\* local temp = {[0] = ...} desired = temp[<cond>] or <default>
ExecTable ==
    /\ Running("table")
    /\ \E cond \in 0..MaxTable :
        LET temp == TempTable(out[pc].tab)
            hit == cond \in DOMAIN temp
            value == IF hit THEN temp[cond] ELSE out[pc].n
            sel == IF hit THEN src[Origin(pc)].table[cond + 1] ELSE src[Origin(pc)].up
        IN /\ desired' = value
           /\ br' = [kind |-> "table", at |-> Origin(pc), up |-> sel,
                     pre |-> desired, post |-> value]
    /\ pc' = pc + 1
    /\ Quiet

\* if desired then
ExecIfDesired ==
    /\ Running("ifdesired")
    /\ pc' = IF desired # Nil THEN pc + 1 ELSE MatchEnd(out, pc) + 1
    /\ br' = BrKeep
    /\ UNCHANGED desired /\ Quiet

\* if desired == <level> then
ExecIfEq ==
    /\ Running("ifeq")
    /\ pc' = IF desired = out[pc].n THEN pc + 1 ELSE MatchEnd(out, pc) + 1
    /\ br' = BrKeep
    /\ UNCHANGED desired /\ Quiet

\* desired = nil
ExecClear ==
    /\ Running("clear")
    /\ desired' = Nil
    /\ pc' = pc + 1
    /\ br' = BrKeep
    /\ Quiet

\* the statement emitter and the emitted text, for bodies branching with
\* br and br_if
Next ==
    \/ gen_func_list
    \/ visit_Forward
    \/ visit_Backward
    \/ visit_If
    \/ visit_Else
    \/ Leave
    \/ visit_Br
    \/ visit_BrIf
    \/ visit_Other
    \/ Invoke
    \/ ExecWhile
    \/ ExecDo
    \/ ExecStmt
    \/ ExecIf
    \/ ExecElse
    \/ ExecEnd
    \/ ExecBreak
    \/ ExecContinue
    \/ ExecSet
    \/ ExecIfDesired
    \/ ExecIfEq
    \/ ExecClear

Spec == Init /\ [][Next]_vars

\* the same, for bodies branching with br_table
NextTable ==
    \/ gen_func_list
    \/ visit_Forward
    \/ visit_Backward
    \/ visit_If
    \/ visit_Else
    \/ Leave
    \/ visit_BrTable
    \/ visit_Other
    \/ Invoke
    \/ ExecWhile
    \/ ExecDo
    \/ ExecStmt
    \/ ExecIf
    \/ ExecElse
    \/ ExecEnd
    \/ ExecBreak
    \/ ExecContinue
    \/ ExecTable
    \/ ExecIfDesired
    \/ ExecIfEq
    \/ ExecClear

SpecTable == Init /\ [][NextTable]_vars

\* ------------------------------------------- claims on branches and labels
\* where wasm lands a branch of depth up issued by statement i: the top of
\* a Backward target, the statement after the End of a Forward or If target
Landing(i, up) ==
    LET q == TargetOf(src, i, up) IN
    IF src[q].k = "Backward" THEN lpos[q]
    ELSE IF SrcEnd(src, q) < Len(src) THEN lpos[SrcEnd(src, q) + 1]
    ELSE Len(out) + 1

TargetKind == src[TargetOf(src, br.at, br.up)].k

\* a branch was executed and control has reached the next statement (or the
\* end of the function) without executing any statement in between
Landed == phase = "exec" /\ br.kind # "none" /\ pc \in StmtStarts

\* the text written for statement i (for a construct: its opening)
Text(i) == SubSeq(out, lpos[i], IF i < Len(src) THEN lpos[i + 1] - 1 ELSE Len(out))

\* C1: a br/br_if of depth k > 0 to a Forward or If exits the k+1 innermost
\* wrappers and resumes at the statement right after the target construct,
\* with desired cleared to nil
C1_BranchOutResumesAfterTarget ==
    (Landed /\ br.kind = "br" /\ br.up > 0 /\ TargetKind \in {"Forward", "If"})
        => (pc = Landing(br.at, br.up) /\ desired = Nil)

\* C2: a br/br_if of depth k > 0 to a Backward exits the k inner wrappers
\* and re-iterates the target loop with desired cleared: the next statement
\* executed is the first of the loop's body
C2_BranchBackReiteratesTarget ==
    (Landed /\ br.kind = "br" /\ br.up > 0 /\ TargetKind = "Backward")
        => (pc = Landing(br.at, br.up) /\ desired = Nil)

\* what a br of depth up at statement i leaves in desired, pre being there
StoredByBr(i, up, pre) ==
    LET text == write_br_at(up, EnclosingKinds(src, i - 1)) IN
    IF text[2].t = "set" THEN text[2].n ELSE pre

\* C3: a br_table with selector c acts as a br of the selected depth (t[c]
\* for 0 <= c < n, else the default): for a depth > 0 it stores in desired
\* what that br stores, the absolute label-stack depth of the target; for
\* depth 0 it lands where a br 0 lands, with no branch left pending
C3_TableActsAsBr ==
    /\ (phase = "exec" /\ br.kind = "table" /\ br.up > 0)
        => br.post = StoredByBr(br.at, br.up, br.pre)
    /\ (Landed /\ br.kind = "table" /\ br.up = 0 /\ br.pre = Nil)
        => (pc = Landing(br.at, 0) /\ desired = Nil)

\* C4: a function entered with desired = nil ends with desired = nil, so a
\* later invocation observes no pending branch
C4_DesiredNilAtFunctionEnd ==
    (AtEnd /\ calls = 1) => desired = Nil

\* C9: a br/br_if of depth 0 is written as continue when the innermost
\* enclosing construct is a Backward and as break otherwise, without an
\* assignment to desired; run with desired = nil it lands on the top of
\* that loop or right after that Forward/If, desired still nil
C9_DepthZeroBranch ==
    /\ \A i \in 1..Len(src) :
        (src[i].k \in {"Br", "BrIf"} /\ src[i].up = 0 /\ phase = "exec") =>
            LET jump == IF src[TargetOf(src, i, 0)].k = "Backward"
                        THEN Tok("continue") ELSE Tok("break")
            IN Text(i) = IF src[i].k = "Br"
                         THEN <<Tok("do"), jump, Tok("end")>>
                         ELSE <<Tok("if"), Tok("do"), jump, Tok("end"), Tok("end")>>
    /\ (Landed /\ br.kind = "br" /\ br.up = 0 /\ br.pre = Nil)
        => (pc = Landing(br.at, 0) /\ desired = Nil)

\* a depth-0 branch left a nested Forward/If, passed its gadget and landed
C9_Witness ==
    /\ Landed /\ br.kind = "br" /\ br.up = 0 /\ br.pre = Nil
    /\ TargetKind \in {"Forward", "If"}
    /\ TargetOf(src, br.at, 0) > 1
    /\ pc = Landing(br.at, 0)
    /\ pc <= Len(out)

\* C10: while a function is emitted the label stack holds exactly the kinds
\* of the constructs enclosing the point of emission, outermost first (so
\* entry len-1-k is the k-th enclosing one); it is empty when the root is
\* entered and when the function has been written
C10_LabelStackMatchesNesting ==
    /\ label_list = EnclosingKinds(src, Len(src))
    /\ (phase = "emit" /\ src = <<>>) => label_list = <<>>
    /\ phase = "exec" => label_list = <<>>

\* an If nested in a Backward has been closed: three pushes, one pop
C10_Witness ==
    /\ phase = "emit"
    /\ Len(src) = 4 /\ src[3].k = "If" /\ src[4].k = "End"
    /\ label_list = <<"Forward", "Backward">>

\* ---------------------------------------------------- constant expressions
\* an instruction: arg the integer or global index it carries; sign, exp and
\* man the fields of the bit pattern a float constant carries
Inst(op, arg) == [op |-> op, arg |-> arg, sign |-> 0, exp |-> 0, man |-> 0]
FInst(op, sign, exp, man) == [op |-> op, arg |-> 0, sign |-> sign, exp |-> exp, man |-> man]

\* the all-ones exponent of f32 and of f64
ExpMax32 == 255
ExpMax64 == 2047

\* f32::from_bits / f64::from_bits, then is_sign_negative, is_infinite, is_nan
FromBits(inst, expmax) ==
    [negative |-> inst.sign = 1,
     infinite |-> inst.exp = expmax /\ inst.man = 0,
     nan |-> inst.exp = expmax /\ inst.man # 0,
     exp |-> inst.exp,
     man |-> inst.man]

\* write_f32 / write_f64: the sign is written apart for infinities and NaNs,
\* {:e} writes the sign of a finite value itself
write_float(f) ==
    IF f.infinite
    THEN [lua |-> "number", text |-> <<IF f.negative THEN "-" ELSE "", "math.huge">>]
    ELSE IF f.nan
    THEN [lua |-> "number", text |-> <<IF f.negative THEN "-" ELSE "", "0/0">>]
    ELSE [lua |-> "number",
          text |-> <<IF f.negative THEN "-" ELSE "", "e", f.exp, f.man>>]

write_f32(inst) == write_float(FromBits(inst, ExpMax32))
write_f64(inst) == write_float(FromBits(inst, ExpMax64))

SupportedOps == {"I32Const", "I64Const", "F32Const", "F64Const", "GetGlobal"}

\* what one arm of the match in write_expression writes
Rendition(inst) ==
    IF inst.op \in {"I32Const", "I64Const"}
    THEN [lua |-> "number", text |-> <<"", "int", inst.arg, 0>>]
    ELSE IF inst.op = "F32Const" THEN write_f32(inst)
    ELSE IF inst.op = "F64Const" THEN write_f64(inst)
    ELSE [lua |-> "global", text |-> <<"GLOBAL_LIST", inst.arg, "value">>]

MundaneError == [lua |-> "error", text |-> <<"mundane expression">>]

RECURSIVE write_expression_no_return(_)
write_expression_no_return(insts) ==
    IF insts = <<>> THEN <<MundaneError>>
    ELSE IF Head(insts).op \in SupportedOps
    THEN <<Rendition(Head(insts))>> \o write_expression_no_return(Tail(insts))
    ELSE write_expression_no_return(Tail(insts))

RECURSIVE write_expression(_)
write_expression(insts) ==
    IF insts = <<>> THEN <<MundaneError>>
    ELSE IF Head(insts).op \in SupportedOps THEN <<Rendition(Head(insts))>>
    ELSE write_expression(Tail(insts))

\* ----------------------------------------------------------- module emitter
Kinds == {"func", "table", "memory", "global"}

\* imports and definitions of one kind
MaxImports == 2
MaxDefs == 1
\* element segments, data segments
MaxSegs == 1
\* entries of the export section
MaxExports == 2

\* the init_expr of every global and the offset of every segment
ConstExpr == <<Inst("I32Const", 0), Inst("End", 0)>>

Item(op, list, index, from, pos) ==
    [op |-> op, list |-> list, index |-> index, from |-> from, pos |-> pos,
     value |-> <<>>, fields |-> <<>>]

Mark(op) == Item(op, "", 0, "", 0)

\* Module::import_count, and the *_space counts
import_count(m, kind) ==
    Cardinality({p \in 1..Len(m.imports) : m.imports[p] = kind})

space(m, kind) == import_count(m, kind) + m.defs[kind]

\* TypeInfo::len_ex: the number of imported functions
len_ex(m) == import_count(m, "func")

write_list(kind, len) ==
    <<Item("create", kind, IF len = 0 THEN 0 ELSE len - 1, "", 0)>>

write_func_name(index, offset) == Item("assign", "func", index + offset, "def", index)

gen_func_names(m) ==
    [i \in 1..m.defs["func"] |-> write_func_name(i - 1, len_ex(m))]

\* the positions of the import section holding an import of the kind
ImportsOf(m, kind) ==
    SelectSeq([p \in 1..Len(m.imports) |-> p], LAMBDA p : m.imports[p] = kind)

gen_import_of_unfiltered(m, kind) ==
    [i \in 1..Len(ImportsOf(m, kind)) |->
        Item("assign", kind, ImportsOf(m, kind)[i] - 1, "import", ImportsOf(m, kind)[i])]

gen_import_of(m, kind) ==
    [i \in 1..Len(ImportsOf(m, kind)) |->
        Item("assign", kind, i - 1, "import", ImportsOf(m, kind)[i])]

ExportsOf(m, kind) ==
    SelectSeq([p \in 1..Len(m.exports.entries) |-> p],
              LAMBDA p : m.exports.entries[p].kind = kind)

gen_export_of(m, kind) ==
    IF ~m.exports.present THEN <<>>
    ELSE <<[name |-> kind,
            entries |-> [i \in 1..Len(ExportsOf(m, kind)) |->
                [field |-> ExportsOf(m, kind)[i],
                 index |-> m.exports.entries[ExportsOf(m, kind)[i]].index]]]>>

gen_import_list(m) ==
    gen_import_of(m, "func") \o gen_import_of(m, "table")
    \o gen_import_of(m, "memory") \o gen_import_of(m, "global")

gen_export_list(m) ==
    gen_export_of(m, "func") \o gen_export_of(m, "table")
    \o gen_export_of(m, "memory") \o gen_export_of(m, "global")

gen_table_list(m) ==
    [i \in 1..m.defs["table"] |->
        Item("assign", "table", (i - 1) + import_count(m, "table"), "def", i - 1)]

gen_memory_list(m) ==
    [i \in 1..m.defs["memory"] |->
        Item("assign", "memory", (i - 1) + import_count(m, "memory"), "def", i - 1)]

gen_global_list(m) ==
    [i \in 1..m.defs["global"] |->
        [Item("assign", "global", (i - 1) + import_count(m, "global"), "def", i - 1)
            EXCEPT !.value = write_expression(ConstExpr)]]

gen_element_list(m) ==
    [i \in 1..m.elements |->
        [Item("element", "table", 0, "seg", i - 1)
            EXCEPT !.value = write_expression(ConstExpr)]]

gen_data_list(m) ==
    [i \in 1..m.data |->
        [Item("data", "memory", 0, "seg", i - 1)
            EXCEPT !.value = write_expression(ConstExpr)]]

start_call(m) == IF m.start THEN <<Item("start", "func", 0, "", 0)>> ELSE <<>>

gen_start_point_start_first(m) ==
    <<Mark("init_begin")>>
    \o gen_table_list(m) \o gen_memory_list(m) \o gen_global_list(m)
    \o gen_element_list(m) \o gen_data_list(m)
    \o <<Mark("init_end"), Mark("factory_begin")>>
    \o gen_import_list(m)
    \o start_call(m)
    \o <<Mark("call_init")>>
    \o <<[Mark("return") EXCEPT !.fields = gen_export_list(m)]>>

gen_start_point(m) ==
    <<Mark("init_begin")>>
    \o gen_table_list(m) \o gen_memory_list(m) \o gen_global_list(m)
    \o gen_element_list(m) \o gen_data_list(m)
    \o <<Mark("init_end"), Mark("factory_begin")>>
    \o gen_import_list(m)
    \o <<Mark("call_init")>>
    \o start_call(m)
    \o <<[Mark("return") EXCEPT !.fields = gen_export_list(m)]>>

\* ------------------------------------------------- module emitter: actions
ExportEntries == [kind : Kinds, index : 0..MaxDefs]

SeqsUpTo(S, n) == UNION {[1..k -> S] : k \in 0..n}

NoExports == [present |-> FALSE, entries |-> <<>>]

\* modules with imports, definitions, segments and a start section
InitMod ==
    /\ FInit /\ EIdle /\ LIdle
    /\ mstep = "new"
    /\ mout = <<>>
    /\ \E imports \in SeqsUpTo(Kinds, MaxImports),
          defs \in [Kinds -> 0..MaxDefs],
          elements \in 0..MaxSegs,
          data \in 0..MaxSegs,
          start \in BOOLEAN,
          exported \in BOOLEAN :
        mod = [imports |-> imports, defs |-> defs, elements |-> elements,
               data |-> data, start |-> start,
               exports |-> [present |-> exported, entries |-> <<>>]]

\* modules with or without an export section
InitExport ==
    /\ FInit /\ EIdle /\ LIdle
    /\ mstep = "new"
    /\ mout = <<>>
    /\ \E exports \in {NoExports} \cup
            {[present |-> TRUE, entries |-> e] : e \in SeqsUpTo(ExportEntries, MaxExports)} :
        mod = [imports |-> <<>>, defs |-> [k \in Kinds |-> 0], elements |-> 0,
               data |-> 0, start |-> FALSE, exports |-> exports]

\* transpile, up to the four preallocated lists
Transpile_Lists ==
    /\ mstep = "new"
    /\ mout' = write_list("func", space(mod, "func"))
               \o write_list("table", space(mod, "table"))
               \o write_list("memory", space(mod, "memory"))
               \o write_list("global", space(mod, "global"))
    /\ mstep' = "lists"
    /\ UNCHANGED <<mod, fvars, evars, lvars>>

\* gen_func_list: FUNC_LIST[index + offset] = function ... end
Transpile_FuncList ==
    /\ mstep = "lists"
    /\ mout' = mout \o gen_func_names(mod)
    /\ mstep' = "funcs"
    /\ UNCHANGED <<mod, fvars, evars, lvars>>

Transpile_StartPoint ==
    /\ mstep = "funcs"
    /\ mout' = mout \o gen_start_point(mod)
    /\ mstep' = "done"
    /\ UNCHANGED <<mod, fvars, evars, lvars>>

NextMod ==
    \/ Transpile_Lists
    \/ Transpile_FuncList
    \/ Transpile_StartPoint

SpecMod == InitMod /\ [][NextMod]_vars

SpecExport == InitExport /\ [][NextMod]_vars

\* --------------------------------------------- the emitted module, as it runs
IndexOf(items, op) == CHOOSE i \in 1..Len(items) : items[i].op = op

\* the body of run_init_code
InitBody(items) ==
    SubSeq(items, IndexOf(items, "init_begin") + 1, IndexOf(items, "init_end") - 1)

\* the statements of the factory
FactoryBody(items) == SubSeq(items, IndexOf(items, "factory_begin") + 1, Len(items))

RECURSIVE Run(_, _)
\* the events of one call of the factory: a call of run_init_code runs its body
Run(body, items) ==
    IF body = <<>> THEN <<>>
    ELSE IF Head(body).op = "call_init" THEN InitBody(items) \o Run(Tail(body), items)
    ELSE <<Head(body)>> \o Run(Tail(body), items)

FactoryEvents == Run(FactoryBody(mout), mout)

\* the assignments into KIND_LIST in the whole text
Assigns(kind) == SelectSeq(mout, LAMBDA it : it.op = "assign" /\ it.list = kind)

\* C5: per kind, with m imports and d definitions, the i-th import of the
\* kind (section order) is assigned index i, the j-th definition index
\* m + j, and every index of 0..m+d-1 is assigned exactly once, none else
C5_FlatIndexSpace ==
    mstep = "done" =>
        \A kind \in Kinds :
            LET m == import_count(mod, kind)
                d == mod.defs[kind]
                a == Assigns(kind)
            IN /\ Len(a) = m + d
               /\ \A x \in 0..(m + d - 1) :
                    Cardinality({n \in 1..Len(a) : a[n].index = x}) = 1
               /\ \A n \in 1..Len(a) :
                    /\ a[n].index \in 0..(m + d - 1)
                    /\ a[n].from = "import" =>
                        /\ a[n].index < m
                        /\ ImportsOf(mod, kind)[a[n].index + 1] = a[n].pos
                    /\ a[n].from = "def" => a[n].index = m + a[n].pos

\* a table import follows a global import and the module defines a table:
\* the import is TABLE_LIST[0], the definition TABLE_LIST[1]
C5_Witness ==
    /\ mstep = "done"
    /\ Len(mod.imports) = 2
    /\ mod.imports[1] = "global" /\ mod.imports[2] = "table"
    /\ mod.defs["table"] = 1
    /\ \E n \in 1..Len(mout) :
        mout[n].op = "assign" /\ mout[n].list = "table" /\ mout[n].from = "def"
        /\ mout[n].index = 1
    /\ \E n \in 1..Len(mout) :
        mout[n].op = "assign" /\ mout[n].list = "table" /\ mout[n].from = "import"
        /\ mout[n].index = 0 /\ mout[n].pos = 2

Rank(ev) ==
    IF ev.op = "assign" /\ ev.from = "import" THEN 1
    ELSE IF ev.op = "assign" /\ ev.list = "table" THEN 2
    ELSE IF ev.op = "assign" /\ ev.list = "memory" THEN 3
    ELSE IF ev.op = "assign" /\ ev.list = "global" THEN 4
    ELSE IF ev.op = "element" THEN 5
    ELSE IF ev.op = "data" THEN 6
    ELSE IF ev.op = "start" THEN 7
    ELSE IF ev.op = "return" THEN 8
    ELSE 0

CountRank(evs, r) == Cardinality({n \in 1..Len(evs) : Rank(evs[n]) = r})

\* C6: one call of the factory runs all import bindings, then the table,
\* memory and global initialisers, then the element and the data segments,
\* then the start call (present iff the module has a start section), then
\* returns the export record; no segment precedes a list assignment
C6_FactoryOrder ==
    mstep = "done" =>
        LET evs == FactoryEvents IN
        /\ \A a, b \in 1..Len(evs) : a < b => Rank(evs[a]) <= Rank(evs[b])
        /\ \A n \in 1..Len(evs) : Rank(evs[n]) # 0
        /\ CountRank(evs, 1) = Len(mod.imports)
        /\ CountRank(evs, 2) = mod.defs["table"]
        /\ CountRank(evs, 3) = mod.defs["memory"]
        /\ CountRank(evs, 4) = mod.defs["global"]
        /\ CountRank(evs, 5) = mod.elements
        /\ CountRank(evs, 6) = mod.data
        /\ CountRank(evs, 7) = (IF mod.start THEN 1 ELSE 0)
        /\ CountRank(evs, 8) = 1

\* a module with an import, a global, both kinds of segment and a start
C6_Witness ==
    /\ mstep = "done"
    /\ mod.start /\ mod.elements = 1 /\ mod.data = 1
    /\ mod.defs["global"] = 1 /\ mod.defs["table"] = 1 /\ mod.defs["memory"] = 1
    /\ Len(mod.imports) = 2
    /\ Len(FactoryEvents) = 9

\* C7: for every module, also one without an export section, the returned
\* record has the four fields func_list, table_list, memory_list and
\* global_list, each holding exactly the exports of its kind
C7_RecordHasFourFields ==
    mstep = "done" =>
        LET fields == mout[Len(mout)].fields IN
        /\ Len(fields) = 4
        /\ \A kind \in Kinds :
            \E n \in 1..4 :
                /\ fields[n].name = kind
                /\ Len(fields[n].entries) = Len(ExportsOf(mod, kind))
                /\ \A i \in 1..Len(fields[n].entries) :
                    /\ mod.exports.entries[fields[n].entries[i].field].kind = kind
                    /\ fields[n].entries[i].index
                        = mod.exports.entries[fields[n].entries[i].field].index

\* ------------------------------------------- write_expression: actions
\* bit patterns of float constants: infinities, NaNs and finite values
FloatFields(expmax) == [sign : 0..1, exp : {1, expmax}, man : 0..1]

\* instruction sequences up to this length
MaxCode == 2

Instructions ==
    {Inst("I32Const", 0), Inst("I64Const", 1), Inst("GetGlobal", 0),
     Inst("End", 0), Inst("Nop", 0)}
    \cup {FInst("F32Const", f.sign, f.exp, f.man) : f \in FloatFields(ExpMax32)}
    \cup {FInst("F64Const", f.sign, f.exp, f.man) : f \in FloatFields(ExpMax64)}

InitExpr ==
    /\ FInit /\ MIdle /\ LIdle
    /\ code \in SeqsUpTo(Instructions, MaxCode)
    /\ eout = <<>>

\* GLOBAL_LIST[i] = { value = <expression> }
Write_GlobalInit ==
    /\ eout = <<>>
    /\ eout' = <<"global">> \o write_expression(code)
    /\ UNCHANGED <<code, fvars, mvars, lvars>>

\* local offset = <expression>, of an element segment
Write_ElementOffset ==
    /\ eout = <<>>
    /\ eout' = <<"element">> \o write_expression(code)
    /\ UNCHANGED <<code, fvars, mvars, lvars>>

\* local offset = <expression>, of a data segment
Write_DataOffset ==
    /\ eout = <<>>
    /\ eout' = <<"data">> \o write_expression(code)
    /\ UNCHANGED <<code, fvars, mvars, lvars>>

NextExpr ==
    \/ Write_GlobalInit
    \/ Write_ElementOffset
    \/ Write_DataOffset

SpecExpr == InitExpr /\ [][NextExpr]_vars

SupportedAt == {i \in 1..Len(code) : code[i].op \in SupportedOps}

\* C8: write_expression writes exactly one Lua value: the rendition of the
\* supported instruction when the sequence has exactly one, and
\* error("mundane expression") when it is empty or has none; never both
C8_OneValueOrError ==
    eout # <<>> =>
        /\ Len(eout) = 2
        /\ SupportedAt = {} => eout[2] = MundaneError
        /\ Cardinality(SupportedAt) = 1 =>
            eout[2] = Rendition(code[CHOOSE i \in SupportedAt : TRUE])
        /\ SupportedAt # {} => eout[2] # MundaneError

\* a get_global after an unsupported instruction, as a data offset
C8_Witness ==
    /\ eout # <<>>
    /\ Len(code) = 2 /\ code[1].op = "Nop" /\ code[2].op = "GetGlobal"
    /\ eout = <<"data", [lua |-> "global", text |-> <<"GLOBAL_LIST", 0, "value">>]>>

\* ------------------------------------------------------- function emitter
\* parameters of a function
MaxParams == 2
\* local-slot groups of a function
MaxGroups == 2
\* slots of one group
MaxCount == 2
\* stack registers of a function
MaxStack == 1

ValueTypes == {"i32", "i64", "f32", "f64"}

\* prefix_0, ..., prefix_{len-1}
write_in_order(prefix, len) == [i \in 1..len |-> <<prefix, i - 1>>]

\* function(param_0, ..., param_{num_param-1})
write_parameter_list(f) ==
    [op |-> "function", names |-> write_in_order("param", f.num_param),
     values |-> <<>>]

\* one group: local loc_0, ..., loc_{count-1} = ZERO_t, ..., ZERO_t
LocalGroup(data) ==
    [op |-> "local", names |-> write_in_order("loc", data.count),
     values |-> [i \in 1..data.count |-> <<"ZERO", data.value_type>>]]

\* a statement per group of local_data, then the register block
write_variable_list(f) ==
    [g \in 1..Len(f.local_data) |-> LocalGroup(f.local_data[g])]
    \o (IF f.num_stack # 0
        THEN <<[op |-> "local", names |-> write_in_order("reg", f.num_stack),
                values |-> <<>>]>>
        ELSE <<>>)

\* var.checked_sub(v.num_param): loc_{var - num_param}, else param_{var}
write_variable(var, np) ==
    IF var >= np THEN <<"loc", var - np>> ELSE <<"param", var>>

RECURSIVE SumCounts(_)
SumCounts(ld) ==
    IF ld = <<>> THEN 0 ELSE ld[1].count + SumCounts(Tail(ld))

Locals == [count : 0..MaxCount, value_type : ValueTypes]

\* a function of the code section and a fresh Visitor
InitVar ==
    /\ FInit /\ MIdle /\ EIdle
    /\ fstep = "new"
    /\ num_param = 0
    /\ fout = <<>>
    /\ ref = NoRef
    /\ \E np \in 0..MaxParams, ld \in SeqsUpTo(Locals, MaxGroups),
          ns \in 0..MaxStack :
        func = [num_param |-> np, local_data |-> ld, num_stack |-> ns]

\* Function::visit up to the body: the parameter list, the declarations,
\* and the Visitor told the number of parameters
visit_Function ==
    /\ fstep = "new"
    /\ fout' = <<write_parameter_list(func)>> \o write_variable_list(func)
    /\ num_param' = func.num_param
    /\ fstep' = "body"
    /\ UNCHANGED <<func, ref, fvars, mvars, evars>>

\* the variable indices of the function: parameters, then local slots
VarIndices == 0..(func.num_param + SumCounts(func.local_data) - 1)

\* a local.get in the body
visit_GetLocal ==
    /\ fstep = "body"
    /\ \E var \in VarIndices :
        ref' = [op |-> "GetLocal", var |-> var,
                name |-> write_variable(var, num_param)]
    /\ UNCHANGED <<func, num_param, fstep, fout, fvars, mvars, evars>>

\* a local.set in the body
visit_SetLocal ==
    /\ fstep = "body"
    /\ \E var \in VarIndices :
        ref' = [op |-> "SetLocal", var |-> var,
                name |-> write_variable(var, num_param)]
    /\ UNCHANGED <<func, num_param, fstep, fout, fvars, mvars, evars>>

\* Function::visit after the body: end
Function_end ==
    /\ fstep = "body"
    /\ fout' = Append(fout, [op |-> "end", names |-> <<>>, values |-> <<>>])
    /\ fstep' = "done"
    /\ UNCHANGED <<func, num_param, ref, fvars, mvars, evars>>

NextVar ==
    \/ visit_Function
    \/ visit_GetLocal
    \/ visit_SetLocal
    \/ Function_end

SpecVar == InitVar /\ [][NextVar]_vars

\* the places of fout declaring the local name loc_j
DeclsOf(j) ==
    {d \in (1..Len(fout)) \X (1..MaxCount + 1) :
        /\ fout[d[1]].op = "local"
        /\ d[2] <= Len(fout[d[1]].names)
        /\ fout[d[1]].names[d[2]] = <<"loc", j>>}

\* the group of local_data holding slot j
GroupOf(j) ==
    CHOOSE g \in 1..Len(func.local_data) :
        /\ SumCounts(SubSeq(func.local_data, 1, g - 1)) <= j
        /\ j < SumCounts(SubSeq(func.local_data, 1, g))

Emitted == fstep \in {"body", "done"}

\* C11: the references and the declarations agree: variable v is written
\* param_v when v < num_param and loc_{v-num_param} otherwise, and every
\* loc_0 .. loc_{S-1} is declared exactly once, with the ZERO_ constant of
\* the type of the group holding the slot
C11_NamesAgree ==
    Emitted =>
        /\ ref.op # "none" =>
            ref.name = IF ref.var < func.num_param
                       THEN <<"param", ref.var>>
                       ELSE <<"loc", ref.var - func.num_param>>
        /\ \A j \in 0..(SumCounts(func.local_data) - 1) :
            /\ Cardinality(DeclsOf(j)) = 1
            /\ \A d \in DeclsOf(j) :
                fout[d[1]].values[d[2]]
                    = <<"ZERO", func.local_data[GroupOf(j)].value_type>>

====
